---- MODULE Spec2Model ----
(***************************************************************************)
(* DankY: the dictionary aggregation layer (DictionariesManager over the   *)
(* English and German source dictionaries and the TreeTagger wrapper), the *)
(* translator chain, and the note composer SendToAnki with its duplicate   *)
(* check against the AnkiConnect store.                                    *)
(*                                                                         *)
(* Python strings are modelled as sequences of one-character strings, so   *)
(* that strip/split/join/capitalize are computed and not assumed.          *)
(***************************************************************************)
EXTENDS Integers, Sequences, FiniteSets, TLC

VARIABLES
    pc,          \* position of the caller inside SendToAnki.addNotes
    arg,         \* the inputs of the running call
    dictionary,  \* DictionariesManager.dictionary (the source dictionary)
    calls,       \* external services invoked so far in this call, in order
    fields,      \* the mapping composed by _prepareFields
    requests,    \* payloads posted to AnkiConnect in this call, in order
    findResult,  \* "result" of the findNotes reply of this call
    outcome,     \* how addNotes ended
    store,       \* notes held by Anki: sequence of [deck, lemma]
    trIn,        \* get_translation on its own: language, lemma, replies
    trOut,       \* get_translation on its own: result and invoked back-ends
    wordIn,      \* legacy Word: the stored word
    wordOut,     \* legacy Word: result of lemmatize
    getter,      \* getters called on one aggregator: faults, engine, call log
    batch,       \* the per-word loop of a bot handler: words, position, counts
    callers,     \* callers of addNotes against one store: position, deck, lemma
    bot          \* TelegramBot: configuration file, managers, user_data

vars == <<pc, arg, dictionary, calls, fields, requests, findResult, outcome,
          store, trIn, trOut, wordIn, wordOut, getter, batch, callers, bot>>

pipelineVars == <<pc, arg, dictionary, calls, fields, requests, findResult,
                  outcome, store>>
trVars == <<trIn, trOut>>
wordVars == <<wordIn, wordOut>>
getVars == <<getter>>
batchVars == <<batch>>
concVars == <<callers>>
botVars == <<bot>>

(***************************************************************************)
(* Bounds of the model                                                     *)
(***************************************************************************)
MaxUnits == 2      \* tagged units the tagging engine yields for one input
MaxDefs == 2       \* definitions / examples a source yields
MaxWordLen == 3    \* characters of a legacy Word input
MaxCalls == 2      \* calls of one getter on one aggregator
MaxOverview == 4   \* elements of a duden meaning overview
MaxEntries == 30   \* definitions of one oversized entry
MaxBatch == 3      \* words of one text message or imported file
MaxGrammar == 5    \* characters of a duden grammar overview
MaxAdds == 3       \* calls of addNotes by one caller
MaxSteps == 4      \* updates handled by one running bot

(***************************************************************************)
(* Python values                                                           *)
(***************************************************************************)
None == "None"

\* str.isspace() for one character
IsSpace(c) == c \in {" ", "\t", "\n", "\r", "NBSP"}

Upper(c) == CASE c = "h" -> "H" [] c = "s" -> "S" [] OTHER -> c
Lower(c) == CASE c = "H" -> "h" [] c = "S" -> "s" [] OTHER -> c

RECURSIVE LStrip(_)
LStrip(s) == IF s = <<>> THEN <<>>
             ELSE IF IsSpace(Head(s)) THEN LStrip(Tail(s)) ELSE s

RECURSIVE RStrip(_)
RStrip(s) == IF s = <<>> THEN <<>>
             ELSE IF IsSpace(s[Len(s)]) THEN RStrip(SubSeq(s, 1, Len(s) - 1))
             ELSE s

\* str.strip()
Strip(s) == RStrip(LStrip(s))

\* str.capitalize(): first character upper-cased, the rest lower-cased
Capitalize(s) == [i \in 1..Len(s) |-> IF i = 1 THEN Upper(s[i]) ELSE Lower(s[i])]

\* sep.join(parts)
RECURSIVE Join(_, _)
Join(sep, parts) ==
    IF parts = <<>> THEN <<>>
    ELSE IF Len(parts) = 1 THEN parts[1]
    ELSE parts[1] \o sep \o Join(sep, Tail(parts))

\* " " in s
HasSpace(s) == \E i \in 1..Len(s) : s[i] = " "

\* a character of s is whitespace
HasWhitespace(s) == \E i \in 1..Len(s) : IsSpace(s[i])

\* seq[:n]
TakeMutant(seq, n) == seq
Take(seq, n) == SubSeq(seq, 1, IF Len(seq) < n THEN Len(seq) ELSE n)

(***************************************************************************)
(* DictionariesManager.get_translation                                     *)
(***************************************************************************)
translators == <<"GoogleTranslator", "MyMemoryTranslator",
                 "LingueeTranslator", "PonsTranslator">>

\* what translator.translate(lemma) does: raises, returns None, or a string
TrStrings == {<<>>, <<" ">>, <<"h", "S">>, <<" ", "h">>}
TrReplies == {[kind |-> "raise", val |-> <<>>], [kind |-> "none", val |-> <<>>]}
             \cup {[kind |-> "str", val |-> s] : s \in TrStrings}

\* `if not self.translation_language`
NoTranslationLanguageMutant(tl) == tl = None
NoTranslationLanguage(tl) == tl = None \/ tl = ""

\* `if translated and translated.strip()`
TranslatedOkMutant(r) == r.kind = "str"
TranslatedOk(r) == r.kind = "str" /\ r.val # <<>> /\ Strip(r.val) # <<>>

\* the for loop over the translators, from back-end i on
RECURSIVE TryTranslators(_, _, _)
TryTranslators(i, replies, invoked) ==
    IF i > Len(translators) THEN [result |-> <<>>, invoked |-> invoked]
    ELSE LET inv == Append(invoked, translators[i]) IN
         IF TranslatedOk(replies[i])
         THEN [result |-> Capitalize(replies[i].val), invoked |-> inv]
         ELSE TryTranslators(i + 1, replies, inv)

\* a chain that walks the back-ends a second time when every one failed
get_translationMutant(tl, replies) ==
    IF NoTranslationLanguage(tl) THEN [result |-> <<>>, invoked |-> <<>>]
    ELSE LET first == TryTranslators(1, replies, <<>>)
         IN IF first.result = <<>>
            THEN TryTranslators(1, replies, first.invoked)
            ELSE first

get_translation(tl, replies) ==
    IF NoTranslationLanguage(tl) THEN [result |-> <<>>, invoked |-> <<>>]
    ELSE TryTranslators(1, replies, <<>>)

TranslationLanguages == {None, "", "it"}
ReplyVectors == [1..Len(translators) -> TrReplies]

NoTr == [result |-> <<>>, invoked |-> <<>>, done |-> FALSE]

TrInit ==
    /\ trIn \in [tl : TranslationLanguages, replies : ReplyVectors]
    /\ trOut = NoTr

\* one call of get_translation on a constructed aggregator
GetTranslation ==
    /\ ~trOut.done
    /\ LET r == get_translation(trIn.tl, trIn.replies) IN
       trOut' = [result |-> r.result, invoked |-> r.invoked, done |-> TRUE]
    /\ UNCHANGED trIn

(***************************************************************************)
(* More string helpers                                                     *)
(***************************************************************************)
\* the value None where a string is expected
NoneS == <<"None">>

\* Python truthiness of an optional string
Truthy(s) == s # NoneS /\ s # <<>>

\* str.split(): the maximal runs of non-whitespace characters
RECURSIVE SplitWs(_, _, _)
SplitWs(s, cur, acc) ==
    IF s = <<>> THEN (IF cur = <<>> THEN acc ELSE Append(acc, cur))
    ELSE IF IsSpace(Head(s))
         THEN SplitWs(Tail(s), <<>>, IF cur = <<>> THEN acc ELSE Append(acc, cur))
         ELSE SplitWs(Tail(s), Append(cur, Head(s)), acc)

Split(s) == SplitWs(s, <<>>, <<>>)

\* str.replace(old, new) for a one-character old; new is a string
RECURSIVE Replace(_, _, _)
Replace(s, old, new) ==
    IF s = <<>> THEN <<>>
    ELSE (IF Head(s) = old THEN new ELSE <<Head(s)>>) \o Replace(Tail(s), old, new)

\* str.strip(chars)
RECURSIVE LStripChars(_, _)
LStripChars(s, cs) == IF s = <<>> THEN <<>>
                      ELSE IF Head(s) \in cs THEN LStripChars(Tail(s), cs) ELSE s

RECURSIVE RStripChars(_, _)
RStripChars(s, cs) == IF s = <<>> THEN <<>>
                      ELSE IF s[Len(s)] \in cs
                           THEN RStripChars(SubSeq(s, 1, Len(s) - 1), cs)
                           ELSE s

StripChars(s, cs) == RStripChars(LStripChars(s, cs), cs)

\* s.split(sep)[-1] for a one-token separator: what follows its last occurrence
RECURSIVE AfterLast(_, _)
AfterLast(s, sep) ==
    IF s = <<>> THEN <<>>
    ELSE IF s[Len(s)] = sep THEN <<>>
    ELSE Append(AfterLast(SubSeq(s, 1, Len(s) - 1), sep), s[Len(s)])

Contains(s, tok) == \E i \in 1..Len(s) : s[i] = tok

\* `sub in s` for a string sub
ContainsSeq(s, sub) ==
    \E i \in 1..(Len(s) - Len(sub) + 1) : SubSeq(s, i, i + Len(sub) - 1) = sub

\* s.split(sub)[-1] for a string sub: what follows its last occurrence
AfterLastSeq(s, sub) ==
    IF ~ContainsSeq(s, sub) THEN s
    ELSE LET starts == {i \in 1..(Len(s) - Len(sub) + 1) :
                           SubSeq(s, i, i + Len(sub) - 1) = sub}
             last == CHOOSE i \in starts : \A j \in starts : j <= i
         IN SubSeq(s, last + Len(sub), Len(s))

\* concatenation of a list of strings (''.join)
RECURSIVE Concat(_)
Concat(parts) == IF parts = <<>> THEN <<>> ELSE Head(parts) \o Concat(Tail(parts))

\* all sequences over S of length 0..n
SeqsUpTo(S, n) == UNION {[1..k -> S] : k \in 0..n}

(***************************************************************************)
(* TreeTagger wrapper                                                      *)
(***************************************************************************)
\* POS_MAP.get(t.pos, t.pos)
POS_MAP(tag) == CASE tag = "NN" -> "Noun" [] tag = "VVINF" -> "Verb" [] OTHER -> tag

\* tagged units the engine can yield: [lemma, pos]
Units == {[lemma |-> <<>>, pos |-> "XY"], [lemma |-> <<"h">>, pos |-> "NN"]}
TagLists == SeqsUpTo(Units, MaxUnits)

\* TreeTagger.get_lemma: " ".join(lemma_list)
TaggerLemma(tags) == Join(<<" ">>, [i \in 1..Len(tags) |-> tags[i].lemma])

\* TreeTagger.get_pos: " ".join(pos_list)
TaggerPos(tags) == Join(<<" ">>, [i \in 1..Len(tags) |-> <<POS_MAP(tags[i].pos)>>])

(***************************************************************************)
(* English_dict                                                            *)
(***************************************************************************)
DefRecords == {[definition |-> <<" ">>, example |-> NoneS],
               [definition |-> <<"d", "e", "f">>, example |-> NoneS],
               [definition |-> <<"d", "e", "f">>, example |-> <<"e", "x">>]}

NoData == [found |-> FALSE, sourceUrls |-> <<>>, phonetic |-> NoneS,
           synonyms |-> {}, definitions |-> <<>>]

\* first entry of the JSON array returned by dictionaryapi.dev
EnglishData ==
    {NoData} \cup
    {[found |-> TRUE, sourceUrls |-> <<<<"u">>>>, phonetic |-> <<"i">>,
      synonyms |-> {<<"y">>, <<"z">>}, definitions |-> ds] :
        ds \in SeqsUpTo(DefRecords, MaxDefs)}

\* English_dict.get_definition
English_get_definitionMutant(d) ==
    IF d.data.found
    THEN [i \in 1..Len(d.data.definitions) |-> d.data.definitions[i].definition]
    ELSE <<d.lemma>>
English_get_definition(d) ==
    [i \in 1..Len(d.data.definitions) |-> d.data.definitions[i].definition]

\* English_dict.get_examples: the truthy examples, in order
RECURSIVE TruthyExamples(_)
TruthyExamples(ds) ==
    IF ds = <<>> THEN <<>>
    ELSE (IF Truthy(Head(ds).example) THEN <<Head(ds).example>> ELSE <<>>)
         \o TruthyExamples(Tail(ds))

English_get_examples(d) == TruthyExamples(d.data.definitions)

\* English_dict.get_url
English_get_url(d) ==
    IF d.data.sourceUrls # <<>> THEN d.data.sourceUrls[1] ELSE <<>>

\* English_dict.get_IPA: self.data.get("phonetic", "")
English_get_IPA(d) == IF d.data.found THEN d.data.phonetic ELSE <<>>

(***************************************************************************)
(* German_dict                                                             *)
(***************************************************************************)
\* German_dict._clean_text
_clean_text(text) ==
    LET t1 == Replace(Replace(text, "NBSP", <<" ">>), "ZWSP", <<>>)
        t2 == Replace(Replace(Replace(t1, "\n", <<" ">>), "\r", <<" ">>), "\t", <<" ">>)
    IN Join(<<" ">>, Split(t2))

\* elements of duden's meaning_overview: a string, or a nested list of strings
StrElem(s) == [isList |-> FALSE, str |-> s, items |-> <<>>]
ListElem(l) == [isList |-> TRUE, str |-> <<>>, items |-> l]

OverviewElems == {StrElem(<<" ">>), StrElem(<<"d", "\n", "f">>)}

NoDuden == [found |-> FALSE, article |-> NoneS, meaning_overview |-> <<>>,
            grammar_overview |-> NoneS, synonyms |-> <<>>, phonetic |-> NoneS]

DudenResults ==
    {NoDuden} \cup
    {[found |-> TRUE, article |-> <<"das">>, meaning_overview |-> mo,
      grammar_overview |-> <<"das", " ", "H", ";", " ", "G", ",", " ", "Hs">>,
      synonyms |-> <<<<"y">>, <<"z">>>>, phonetic |-> NoneS] :
        mo \in SeqsUpTo(OverviewElems, MaxDefs)}
    \cup
    {[found |-> TRUE, article |-> NoneS,
      meaning_overview |-> <<ListElem(<<<<"d">>, <<"e", "f", "g">>>>), StrElem(<<"h">>)>>,
      grammar_overview |-> <<"die", " ", "F", ",", " ", "Plural", ":", " ", "die", " ", "Fs", ".">>,
      synonyms |-> <<>>, phonetic |-> <<"i">>]}

\* one level of flattening (Case 1 & 2)
RECURSIVE FlattenMutant(_)
FlattenMutant(defs) ==
    IF defs = <<>> THEN <<>>
    ELSE (IF Head(defs).isList THEN <<>> ELSE <<Head(defs).str>>)
         \o FlattenMutant(Tail(defs))
RECURSIVE Flatten(_)
Flatten(defs) ==
    IF defs = <<>> THEN <<>>
    ELSE (IF Head(defs).isList THEN Head(defs).items ELSE <<Head(defs).str>>)
         \o Flatten(Tail(defs))

\* German_dict.get_definition
German_get_definitionMutant(d) ==
    LET definitions == d.data.meaning_overview IN
    IF ~d.data.found \/ definitions = <<>> THEN <<>>
    ELSE LET flat == Flatten(definitions) IN
         [i \in 1..Len(flat) |-> _clean_text(flat[i])]
German_get_definition(d) ==
    LET definitions == d.data.meaning_overview IN
    IF ~d.data.found \/ definitions = <<>> THEN <<>>
    ELSE IF \A i \in 1..Len(definitions) :
                ~definitions[i].isList /\ Len(definitions[i].str) <= 2
         THEN <<_clean_text(Concat([i \in 1..Len(definitions) |-> definitions[i].str]))>>
         ELSE LET flat == Flatten(definitions) IN
              [i \in 1..Len(flat) |-> _clean_text(flat[i])]

\* last element of str.split(), "" when there is none
LastWord(s) == LET w == Split(s) IN IF w = <<>> THEN <<>> ELSE w[Len(w)]

\* the literal "Plural:"
PluralMarker == <<"Plural", ":">>

\* German_dict.get_plural
German_get_plural(d) ==
    LET g == d.data.grammar_overview
        byMarker == StripChars(LastWord(Strip(AfterLastSeq(g, PluralMarker))),
                               {".", ",", ";", ":"})
        byComma == StripChars(LastWord(Strip(AfterLast(g, ","))), {".", ",", ";", ":"})
    IN IF ~d.data.found \/ ~Truthy(g) THEN <<>>
       ELSE IF ContainsSeq(g, PluralMarker) /\ byMarker # <<>> THEN byMarker
       ELSE IF Contains(g, ",") /\ byComma # <<>> THEN byComma
       ELSE <<>>

\* German_dict.get_url
German_get_url(d) == <<"https://www.duden.de/rechtschreibung/">> \o d.lemma

\* German_dict.get_article / get_synonyms / get_IPA
German_get_article(d) == IF d.data.found THEN d.data.article ELSE <<>>
German_get_synonyms(d) == IF d.data.found THEN d.data.synonyms ELSE <<>>
German_get_IPAMutant(d) == d.data.phonetic
German_get_IPA(d) == IF d.data.found THEN d.data.phonetic ELSE <<>>

(***************************************************************************)
(* DictionariesManager                                                     *)
(***************************************************************************)
\* keys of DictionariesManager.DICTS, in order
DICTS == <<"en", "de">>

max_items == 15

\* `self.lang not in self.DICTS` negated
SupportedMutant(lang) == TRUE
Supported(lang) == \E i \in 1..Len(DICTS) : DICTS[i] = lang

NoDict == [variant |-> "none", lemma |-> <<>>, pos |-> <<>>, data |-> NoData]

\* what Tagger(word, lang) does: raises (engine missing), or yields tagged units
TaggerOutcomes == {[ok |-> FALSE, tags |-> <<>>]}
                  \cup {[ok |-> TRUE, tags |-> t] : t \in TagLists}

\* what the fetch of the enriched entry can leave in the source dictionary
DataFor(lang) == IF lang = "en" THEN EnglishData ELSE DudenResults

\* English_dict.__init__ / German_dict.__init__ after a successful Tagger call
NewSourceDict(lang, tags, data) ==
    [variant |-> lang, lemma |-> TaggerLemma(tags), pos |-> TaggerPos(tags),
     data |-> data]

\* getters of the source dictionary that can raise: English_dict catches
\* inside every data getter, German_dict reads duden properties unguarded
\* once duden_result is set
SourceFaults(d) ==
    IF d.variant = "de" /\ d.data.found
    THEN {{}, {"get_definition"}, {"get_article"}, {"get_synonyms"}, {"get_IPA"}}
    ELSE {{}}

\* DictionariesManager.get_lemma
get_lemma(d) == d.lemma

\* DictionariesManager.get_POS
get_POS(d, faults) == IF "get_POS" \in faults THEN <<>> ELSE d.pos

\* DictionariesManager.get_url
get_url(d, faults) ==
    IF "get_url" \in faults THEN <<>>
    ELSE IF d.variant = "en" THEN English_get_url(d) ELSE German_get_url(d)

\* DictionariesManager.get_article
get_article(d, faults) ==
    IF "get_article" \in faults THEN <<>>
    ELSE IF d.variant = "en" THEN <<>> ELSE German_get_article(d)

\* DictionariesManager.get_plural: only German_dict has get_plural
get_plural(d, faults) ==
    IF "get_plural" \in faults THEN <<>>
    ELSE IF d.variant = "de" THEN German_get_plural(d) ELSE <<>>

\* DictionariesManager.get_definition: [raised, value]
get_definitionMutant(d, faults) == [raised |-> FALSE, value |-> <<>>]
get_definition(d, faults) ==
    IF "get_definition" \in faults THEN [raised |-> TRUE, value |-> <<>>]
    ELSE [raised |-> FALSE,
          value |-> Take(IF d.variant = "en" THEN English_get_definition(d)
                         ELSE German_get_definition(d), max_items)]

\* DictionariesManager.get_examples: German_dict.get_examples returns ""
get_examples(d, faults) ==
    IF "get_examples" \in faults THEN <<>>
    ELSE IF d.variant = "en" THEN Take(English_get_examples(d), max_items)
    ELSE <<>>

\* the optional transliteration engine: absent, raising, or returning a string
NoEpitran == [available |-> FALSE, kind |-> "str", val |-> <<>>]
EpitranOutcomes == {[available |-> FALSE, kind |-> "str", val |-> <<>>],
                    [available |-> TRUE, kind |-> "raise", val |-> <<>>],
                    [available |-> TRUE, kind |-> "str", val |-> <<"e">>]}

\* DictionariesManager.get_IPA
get_IPA(d, faults, ep) ==
    LET src == IF d.variant = "en" THEN English_get_IPA(d) ELSE German_get_IPA(d)
        ipa1 == IF "get_IPA" \in faults THEN <<>>
                ELSE IF src = NoneS \/ Strip(src) = <<>> THEN <<>> ELSE src
        ipa2 == IF ipa1 = <<>> /\ d.variant = "de" /\ ep.available
                THEN (IF ep.kind = "raise" THEN <<>>
                      ELSE IF ep.val = <<>> \/ Strip(ep.val) = <<>> THEN <<>>
                      ELSE ep.val)
                ELSE ipa1
    IN IF ipa2 # <<>> /\ Strip(ipa2) # <<>> THEN ipa2 ELSE <<>>

\* the orders in which the synonyms can be iterated: English_dict returns a
\* set, German_dict a list
RECURSIVE SetOrders(_)
SetOrders(S) ==
    IF S = {} THEN {<<>>}
    ELSE UNION {{<<x>> \o o : o \in SetOrders(S \ {x})} : x \in S}

\* epitran is consulted for German only
EpitranFor(d) == IF d.variant = "de" THEN EpitranOutcomes ELSE {NoEpitran}

SynonymOrders(d, faults) ==
    IF "get_synonyms" \in faults THEN {<<>>}
    ELSE IF d.variant = "en" THEN SetOrders(d.data.synonyms)
    ELSE {German_get_synonyms(d)}

\* DictionariesManager.get_synonyms: English_dict returns a set, German_dict a
\* list
get_synonyms(d, faults) ==
    IF "get_synonyms" \in faults THEN <<>>
    ELSE IF d.variant = "en" THEN d.data.synonyms
    ELSE German_get_synonyms(d)

\* the getters of the aggregator
OptionalGetters == {"get_POS", "get_url", "get_article", "get_plural",
                    "get_examples", "get_synonyms", "get_IPA",
                    "get_translation"}
Getters == {"get_lemma", "get_definition"} \cup OptionalGetters

\* a fault in one getter of the source dictionary, whatever its cause
GetterFaults == {{}} \cup {{g} : g \in Getters \ {"get_translation"}}

\* the getters whose `except Exception` returns a default instead of raising
SwallowsMutant(name) ==
    name \in {"get_POS", "get_url", "get_article", "get_plural", "get_examples"}
Swallows(name) ==
    name \in {"get_POS", "get_url", "get_article", "get_plural", "get_examples",
              "get_synonyms"}

\* RuntimeError(f"Error getting ... for '{self.word}' in {self.lang}: {e}")
NoError == [type |-> "", word |-> <<>>, lang |-> ""]
GetterError(word, lang) == [type |-> "RuntimeError", word |-> word, lang |-> lang]

\* replies of the back-ends to one call of get_translation: all four answer,
\* or all four raise; they are asked again on every call
GetterReplyVectors ==
    {[i \in 1..Len(translators) |-> [kind |-> "str", val |-> <<"h", "S">>]],
     [i \in 1..Len(translators) |-> [kind |-> "raise", val |-> <<>>]]}

GetterReplies(name, tl) ==
    IF name = "get_translation" /\ ~NoTranslationLanguage(tl)
    THEN GetterReplyVectors
    ELSE {[i \in 1..Len(translators) |-> [kind |-> "raise", val |-> <<>>]]}

\* one call of a getter of the aggregator: what the caller sees
CallGetter(name, d, faults, ep, tl, replies, word, lang) ==
    LET Returned(v) == [raised |-> FALSE, value |-> v, error |-> NoError]
        Raised == [raised |-> TRUE, value |-> <<>>,
                   error |-> GetterError(word, lang)]
    IN CASE name = "get_lemma" ->
              IF "get_lemma" \in faults THEN Raised ELSE Returned(get_lemma(d))
         [] name = "get_definition" ->
              IF get_definition(d, faults).raised THEN Raised
              ELSE Returned(get_definition(d, faults).value)
         [] name = "get_IPA" ->
              \* line 135: self.get_lemma() is called outside the try blocks
              IF "get_lemma" \in faults THEN Raised
              ELSE Returned(get_IPA(d, faults, ep))
         [] name = "get_translation" ->
              IF NoTranslationLanguage(tl) THEN Returned(<<>>)
              ELSE IF "get_lemma" \in faults THEN Raised
              ELSE Returned(get_translation(tl, replies).result)
         [] OTHER ->
              IF name \in faults /\ ~Swallows(name) THEN Raised
              ELSE Returned(CASE name = "get_POS" -> get_POS(d, faults)
                              [] name = "get_url" -> get_url(d, faults)
                              [] name = "get_article" -> get_article(d, faults)
                              [] name = "get_plural" -> get_plural(d, faults)
                              [] name = "get_examples" -> get_examples(d, faults)
                              [] OTHER -> get_synonyms(d, faults))

\* the source dictionary after a getter has run: no getter assigns to it
AfterGetterMutant(name, d) ==
    IF name = "get_examples" /\ d.variant = "en"
    THEN [d EXCEPT !.data.definitions = IF @ = <<>> THEN @ ELSE Tail(@)]
    ELSE d
AfterGetter(name, d) == d

NoGetter == [faults |-> {}, ep |-> NoEpitran, d0 |-> NoDict, log |-> <<>>]

(***************************************************************************)
(* SendToAnki                                                              *)
(***************************************************************************)
model_name == "DankY"

\* replies of the back-ends seen while a note is composed: the first k-1
\* back-ends fail (raising and returning "" in turn), back-end k succeeds;
\* with k = 5 all four fail
PipelineReplyVectors ==
    {[i \in 1..Len(translators) |->
        IF i < k THEN (IF i % 2 = 1 THEN [kind |-> "raise", val |-> <<>>]
                       ELSE [kind |-> "str", val |-> <<>>])
        ELSE [kind |-> "str", val |-> <<"h", "S">>]] : k \in 1..4}
    \cup {[i \in 1..Len(translators) |->
             IF i % 2 = 1 THEN [kind |-> "raise", val |-> <<>>]
             ELSE [kind |-> "str", val |-> <<" ">>]]}

\* with no target language no back-end is asked: one reply vector stands for all
AllRaise == [i \in 1..Len(translators) |-> [kind |-> "raise", val |-> <<>>]]
RepliesFor(tl) == IF tl = "it" THEN PipelineReplyVectors ELSE {AllRaise}

DefKey(i) == "def" \o ToString(i)
ExKey(i) == "ex" \o ToString(i)

BaseKeys == {"url", "lemma", "IPA", "POS", "article", "plural",
             "translated_lemma", "synonyms"}

\* `x.strip() if x.strip() else ""` after the None check
StripOrEmpty(x) == IF x = NoneS THEN <<>> ELSE Strip(x)

\* `d or ""`
OrEmpty(x) == IF x = NoneS THEN <<>> ELSE x

\* SendToAnki._prepareFields on a constructed aggregator, once get_definition
\* has returned defs: the composed mapping
ComposeFields(d, faults, ep, translation, syn, defs) ==
    LET ds == Take(defs, 15)
        exs == Take(get_examples(d, faults), 15)
        keys == BaseKeys \cup {DefKey(i) : i \in 1..Len(ds)}
                         \cup {ExKey(i) : i \in 1..Len(exs)}
    IN [k \in keys |->
          CASE k = "url" -> OrEmpty(get_url(d, faults))
            [] k = "lemma" -> OrEmpty(get_lemma(d))
            [] k = "IPA" -> get_IPA(d, faults, ep)
            [] k = "POS" -> StripOrEmpty(get_POS(d, faults))
            [] k = "article" -> StripOrEmpty(get_article(d, faults))
            [] k = "plural" -> StripOrEmpty(get_plural(d, faults))
            [] k = "translated_lemma" -> translation
            [] k = "synonyms" -> Join(<<",", " ">>, syn)
            [] \E i \in 1..Len(ds) : k = DefKey(i) ->
                 OrEmpty(ds[CHOOSE i \in 1..Len(ds) : k = DefKey(i)])
            [] OTHER ->
                 OrEmpty(exs[CHOOSE i \in 1..Len(exs) : k = ExKey(i)])]

NoFields == [k \in {} |-> <<>>]

\* fields.get(name)
FieldGet(f, k) == IF k \in DOMAIN f THEN f[k] ELSE NoneS

\* `not value or (isinstance(value, str) and not value.strip())`
IsMissingMutant(v) == v = NoneS \/ v = <<>>
IsMissing(v) == v = NoneS \/ v = <<>> \/ Strip(v) = <<>>

mandatory_fieldsMutant == <<"def1", "translated_lemma">>
mandatory_fields == <<"def1">>

\* SendToAnki.addNotes, lines 189-209: the missing_fields of the error that is
\* raised, <<>> when none is raised
MissingMandatory(f) ==
    LET missing == SelectSeq(mandatory_fields, LAMBDA n : IsMissing(FieldGet(f, n)))
    IN IF missing # <<>> THEN missing
       ELSE IF IsMissing(FieldGet(f, "lemma")) THEN <<"lemma">>
       ELSE <<>>

\* a query that names no lemma
FindNotesPayloadMutant(deck, lemma) ==
    [action |-> "findNotes", query |-> <<"deck:", deck, " lemma:", <<>>>>]

\* SendToAnki._setPayload("findNotes", lemma)
FindNotesPayload(deck, lemma) ==
    [action |-> "findNotes", query |-> <<"deck:", deck, " lemma:", lemma>>]

\* the "result" of AnkiConnect's JSON reply to findNotes
FindResults == {"null", "empty", "nonempty"}

\* SendToAnki.checkExistence: bool(response.get("result"))
checkExistenceMutant(result) == FALSE
checkExistence(result) == result = "nonempty"

(***************************************************************************)
(* One word through DictionariesManager and SendToAnki.addNotes            *)
(***************************************************************************)
Words == {<<"h">>, <<"h", " ", "s">>}
Langs == {"en", "de", "fr"}
Decks == {"D1", "D2"}

\* no handler loop is running
NoBatch == [handler |-> "none", phase |-> "idle", words |-> <<>>, i |-> 1,
            attempted |-> <<>>, imported |-> 0, errors |-> 0,
            reports |-> <<>>, replies |-> <<>>]

\* the callers of addNotes that share one store
Procs == {1, 2}

\* no caller is running
NoCallers ==
    [p \in Procs |-> [active |-> FALSE, pc |-> "idle", deck |-> "D1",
                      lemma |-> <<>>, saw |-> "none", n |-> 0,
                      posted |-> <<>>, added |-> <<>>, last |-> "none"]]

\* ConfigManager._load_or_create: the configuration written when the file
\* is missing
default_config ==
    [BOT_LANGUAGE |-> "en", TARGET_LANGUAGE |-> "en",
     TRANSLATION_LANGUAGE |-> <<"None">>, SELECTED_DECK |-> None]

\* a key of user_data that was never assigned; a history value never set
Unset == <<"unset">>

\* no handler of the bot has run yet
NoRun == [handler |-> "none", outcome |-> "none", route |-> "none",
          deck |-> None, target |-> None, tl |-> <<"None">>, lookups |-> 0,
          fileDeck |-> None, deckSet |-> "unset", trSet |-> Unset,
          targetSet |-> "unset", prompt |-> FALSE]

\* no bot is running
NoBot ==
    [file |-> default_config, deckCfg |-> default_config,
     langCfg |-> default_config,
     bot_language |-> "en", target_language |-> "en",
     translation_language |-> <<"None">>,
     DECK_NAME |-> None, TARGET_LANGUAGE |-> "en",
     TRANSLATION_LANGUAGE |-> <<"None">>,
     awaiting_translation_lang |-> "unset", user_translation_language |-> Unset,
     truth |-> default_config, deckSet |-> "unset", trSet |-> Unset,
     targetSet |-> "unset", prompt |-> FALSE, steps |-> 0, last |-> NoRun]

NoOutcome == [kind |-> "pending", inAddNotes |-> FALSE, missing |-> <<>>,
              word |-> <<>>, lemma |-> <<>>, deck |-> "", supported |-> <<>>]

Raise(kind) == [NoOutcome EXCEPT !.kind = kind, !.inAddNotes = (arg.kind = "str")]

Init ==
    /\ pc = "start"
    /\ arg \in [kind : {"str", "obj"}, word : Words, lang : Langs,
                tl : TranslationLanguages, deck : Decks]
    /\ dictionary = NoDict
    /\ calls = <<>>
    /\ fields = NoFields
    /\ requests = <<>>
    /\ findResult = "none"
    /\ outcome = NoOutcome
    /\ store = <<>>
    /\ trIn = [tl |-> None, replies |-> AllRaise]
    /\ trOut = NoTr
    /\ wordIn = <<>>
    /\ wordOut = <<>>
    /\ getter = NoGetter
    /\ batch = NoBatch
    /\ callers = NoCallers
    /\ bot = NoBot

\* DictionariesManager.__init__: by the caller of addNotes (kind "obj"), or
\* inside _prepareFields when addNotes is given a word (kind "str")
NewDictionariesManager ==
    /\ pc = "start"
    /\ IF ~Supported(arg.lang)
       THEN /\ outcome' = [Raise("UnsupportedLanguage") EXCEPT !.supported = DICTS]
            /\ pc' = "done"
            /\ UNCHANGED <<dictionary, calls>>
       ELSE \E tg \in TaggerOutcomes, data \in DataFor(arg.lang) :
              IF ~tg.ok
              THEN /\ calls' = calls \o <<"tagger">>
                   /\ outcome' = Raise("DictionaryInitFailed")
                   /\ pc' = "done"
                   /\ UNCHANGED dictionary
              ELSE /\ calls' = calls \o <<"tagger", "fetch">>
                   /\ dictionary' = NewSourceDict(arg.lang, tg.tags, data)
                   /\ pc' = "constructed"
                   /\ UNCHANGED outcome
    /\ UNCHANGED <<arg, fields, requests, findResult, store, trVars, wordVars, getVars, batchVars, concVars, botVars>>

\* SendToAnki.addNotes up to the mandatory-field checks (lines 187-209)
AddNotesCompose ==
    /\ pc = "constructed"
    /\ \E replies \in RepliesFor(arg.tl), faults \in SourceFaults(dictionary),
          ep \in EpitranFor(dictionary) :
         \E syn \in SynonymOrders(dictionary, faults) :
           LET tr == get_translation(arg.tl, replies)
               defs == get_definition(dictionary, faults)
           IN /\ calls' = calls \o tr.invoked
              /\ trIn' = [tl |-> arg.tl, replies |-> replies]
              /\ trOut' = [result |-> tr.result, invoked |-> tr.invoked,
                           done |-> TRUE]
              /\ IF defs.raised
                 THEN /\ outcome' = [Raise("DefinitionError") EXCEPT !.inAddNotes = TRUE]
                      /\ pc' = "done"
                      /\ UNCHANGED fields
                 ELSE LET f == ComposeFields(dictionary, faults, ep, tr.result,
                                             syn, defs.value)
                          missing == MissingMandatory(f)
                      IN /\ fields' = f
                         /\ IF missing # <<>>
                            THEN /\ outcome' = [NoOutcome EXCEPT
                                       !.kind = "MissingMandatoryFieldError",
                                       !.inAddNotes = TRUE,
                                       !.missing = missing,
                                       !.word = arg.word]
                                 /\ pc' = "done"
                            ELSE /\ pc' = "checking"
                                 /\ UNCHANGED outcome
    /\ UNCHANGED <<arg, dictionary, requests, findResult, store, wordVars, getVars, batchVars, concVars, botVars>>

\* SendToAnki.addNotes line 224: checkExistence posts findNotes; the request
\* fails in transport, or AnkiConnect replies
CheckExistence ==
    /\ pc = "checking"
    /\ requests' = Append(requests, FindNotesPayload(arg.deck, fields["lemma"]))
    /\ \/ /\ outcome' = [NoOutcome EXCEPT !.kind = "ConnectionError",
                                          !.inAddNotes = TRUE]
          /\ pc' = "done"
          /\ UNCHANGED findResult
       \/ \E result \in FindResults :
            /\ findResult' = result
            /\ IF checkExistence(result)
               THEN /\ outcome' = [NoOutcome EXCEPT !.kind = "AlreadyExists",
                                       !.inAddNotes = TRUE,
                                       !.lemma = fields["lemma"],
                                       !.deck = arg.deck]
                    /\ pc' = "done"
               ELSE /\ pc' = "adding"
                    /\ UNCHANGED outcome
    /\ UNCHANGED <<arg, dictionary, calls, fields, store, trVars, wordVars, getVars, batchVars, concVars, botVars>>

\* the addNote payload of lines 211-222
AddNotePayload(deck, f) ==
    [action |-> "addNote",
     note |-> [deckName |-> deck, modelName |-> model_name, fields |-> f]]

\* SendToAnki.addNotes line 226: posts addNote and ignores the reply; the
\* request fails in transport, or AnkiConnect creates the note, or it answers
\* with an error object and creates nothing
AddNote ==
    /\ pc = "adding"
    /\ requests' = Append(requests, AddNotePayload(arg.deck, fields))
    /\ pc' = "done"
    /\ \/ /\ outcome' = [NoOutcome EXCEPT !.kind = "ConnectionError",
                                          !.inAddNotes = TRUE]
          /\ UNCHANGED store
       \/ /\ outcome' = [NoOutcome EXCEPT !.kind = "returned", !.inAddNotes = TRUE]
          /\ store' = Append(store, [deck |-> arg.deck, lemma |-> fields["lemma"]])
       \/ /\ outcome' = [NoOutcome EXCEPT !.kind = "returned", !.inAddNotes = TRUE]
          /\ UNCHANGED store
    /\ UNCHANGED <<arg, dictionary, calls, fields, findResult, trVars, wordVars, getVars, batchVars, concVars, botVars>>

Next == NewDictionariesManager \/ AddNotesCompose \/ CheckExistence \/ AddNote

Spec == Init /\ [][Next]_vars

(***************************************************************************)
(* get_translation on its own, over every combination of back-end replies  *)
(***************************************************************************)
InitTr ==
    /\ TrInit
    /\ pc = "start"
    /\ arg = [kind |-> "obj", word |-> <<"h">>, lang |-> "en", tl |-> trIn.tl,
              deck |-> "D1"]
    /\ dictionary = NoDict
    /\ calls = <<>>
    /\ fields = NoFields
    /\ requests = <<>>
    /\ findResult = "none"
    /\ outcome = NoOutcome
    /\ store = <<>>
    /\ wordIn = <<>>
    /\ wordOut = <<>>
    /\ getter = NoGetter
    /\ batch = NoBatch
    /\ callers = NoCallers
    /\ bot = NoBot

NextTr == GetTranslation /\ UNCHANGED <<pipelineVars, wordVars, getVars, batchVars, concVars, botVars>>

SpecTr == InitTr /\ [][NextTr]_vars

(***************************************************************************)
(* Legacy Word.lemmatize (src/Word.py)                                     *)
(***************************************************************************)
WordChars == {"a", "n", "x", " "}

ARTICLES_LIST == <<<<"t", "h", "e">>, <<"a">>, <<"a", "n">>, <<"t", "o">>>>

StartsWith(s, p) == Len(s) >= Len(p) /\ SubSeq(s, 1, Len(p)) = p

\* the for loop with break: the first article art with word.startswith(art + " ")
RECURSIVE StripArticle(_, _)
StripArticle(w, i) ==
    IF i > Len(ARTICLES_LIST) THEN w
    ELSE IF StartsWith(w, ARTICLES_LIST[i] \o <<" ">>)
         THEN Strip(SubSeq(w, Len(ARTICLES_LIST[i]) + 1, Len(w)))
         ELSE StripArticle(w, i + 1)

NoWordOut == [done |-> FALSE, raised |-> "", lemma |-> <<>>, network |-> FALSE]

InitWord ==
    /\ \E w \in SeqsUpTo(WordChars, MaxWordLen) :
         wordIn = Strip([i \in 1..Len(w) |-> Lower(w[i])])   \* Word.__init__
    /\ wordOut = NoWordOut
    /\ pc = "start"
    /\ arg = [kind |-> "obj", word |-> wordIn, lang |-> "en", tl |-> None,
              deck |-> "D1"]
    /\ dictionary = NoDict
    /\ calls = <<>>
    /\ fields = NoFields
    /\ requests = <<>>
    /\ findResult = "none"
    /\ outcome = NoOutcome
    /\ store = <<>>
    /\ trIn = [tl |-> None, replies |-> AllRaise]
    /\ trOut = NoTr
    /\ getter = NoGetter
    /\ batch = NoBatch
    /\ callers = NoCallers
    /\ bot = NoBot

\* Word.lemmatize(checkExistence=True): simplemma returns the word or another
\* single token; _try_connection contacts the dictionary API and may raise
Lemmatize ==
    /\ ~wordOut.done
    /\ LET w == StripArticle(wordIn, 1) IN
       IF HasSpace(w)
       THEN wordOut' = [done |-> TRUE, raised |-> "ValueError", lemma |-> <<>>,
                        network |-> FALSE]
       ELSE \E lemma \in {w, <<"x">>}, found \in BOOLEAN :
              wordOut' = [done |-> TRUE,
                          raised |-> IF found THEN "" ELSE "SystemError",
                          lemma |-> IF found THEN lemma ELSE <<>>,
                          network |-> TRUE]
    /\ UNCHANGED wordIn

NextWord == Lemmatize /\ UNCHANGED <<pipelineVars, trVars, getVars, batchVars, concVars, botVars>>

SpecWord == InitWord /\ [][NextWord]_vars

(***************************************************************************)
(* Getters called on one constructed aggregator                            *)
(***************************************************************************)
InitGet ==
    /\ pc = "constructed"
    /\ arg \in [kind : {"obj"}, word : {<<"h">>}, lang : {"en", "de"},
                tl : {None, "it"}, deck : {"D1"}]
    /\ \E tags \in TagLists, data \in DataFor(arg.lang) :
         dictionary = NewSourceDict(arg.lang, tags, data)
    /\ calls = <<"tagger", "fetch">>
    /\ getter \in [faults : GetterFaults, ep : EpitranFor(dictionary),
                   d0 : {dictionary}, log : {<<>>}]
    /\ fields = NoFields
    /\ requests = <<>>
    /\ findResult = "none"
    /\ outcome = NoOutcome
    /\ store = <<>>
    /\ trIn = [tl |-> None, replies |-> AllRaise]
    /\ trOut = NoTr
    /\ wordIn = <<>>
    /\ wordOut = <<>>
    /\ batch = NoBatch
    /\ callers = NoCallers
    /\ bot = NoBot

\* the caller calls one getter, up to MaxCalls times in a row
Call(name) ==
    /\ pc = "constructed"
    /\ Len(getter.log) < MaxCalls
    /\ IF getter.log = <<>> THEN TRUE ELSE getter.log[1].name = name
    /\ \E replies \in GetterReplies(name, arg.tl) :
         LET r == CallGetter(name, dictionary, getter.faults, getter.ep,
                             arg.tl, replies, arg.word, arg.lang)
         IN /\ getter' = [getter EXCEPT !.log = Append(@,
                              [name |-> name, raised |-> r.raised,
                               value |-> r.value, error |-> r.error,
                               replies |-> replies])]
            /\ calls' = IF name = "get_translation" /\ ~r.raised
                        THEN calls \o get_translation(arg.tl, replies).invoked
                        ELSE calls
    /\ dictionary' = AfterGetter(name, dictionary)
    /\ UNCHANGED <<pc, arg, fields, requests, findResult, outcome, store,
                   trVars, wordVars, batchVars, concVars, botVars>>

NextGet == \E name \in Getters : Call(name)

SpecGet == InitGet /\ [][NextGet]_vars

(***************************************************************************)
(* German_dict.get_definition over the shapes of a meaning overview        *)
(***************************************************************************)
ShortElems == {StrElem(<<>>), StrElem(<<" ">>), StrElem(<<"H">>),
               StrElem(<<"a">>), StrElem(<<"u">>), StrElem(<<"s">>),
               StrElem(<<"a", "\n">>), StrElem(<<"d", "e", "f">>),
               ListElem(<<<<"a">>, <<"d", "\n", "f">>>>)}

InitDef ==
    /\ pc = "constructed"
    /\ arg = [kind |-> "obj", word |-> <<"h">>, lang |-> "de", tl |-> None,
              deck |-> "D1"]
    /\ \E mo \in SeqsUpTo(ShortElems, MaxOverview) :
         dictionary = [variant |-> "de", lemma |-> <<"h">>, pos |-> <<"NOUN">>,
                       data |-> [found |-> TRUE, article |-> NoneS,
                                 meaning_overview |-> mo,
                                 grammar_overview |-> NoneS,
                                 synonyms |-> <<>>, phonetic |-> NoneS]]
    /\ calls = <<"tagger", "fetch">>
    /\ getter = [faults |-> {}, ep |-> NoEpitran, d0 |-> dictionary, log |-> <<>>]
    /\ fields = NoFields
    /\ requests = <<>>
    /\ findResult = "none"
    /\ outcome = NoOutcome
    /\ store = <<>>
    /\ trIn = [tl |-> None, replies |-> AllRaise]
    /\ trOut = NoTr
    /\ wordIn = <<>>
    /\ wordOut = <<>>
    /\ batch = NoBatch
    /\ callers = NoCallers
    /\ bot = NoBot

NextDef == Call("get_definition")

SpecDef == InitDef /\ [][NextDef]_vars

(***************************************************************************)
(* German_dict.get_plural over the shapes of a grammar overview            *)
(***************************************************************************)
GrammarChars == {"H", " ", ",", ".", "Plural", ":"}

InitPlural ==
    /\ pc = "constructed"
    /\ arg = [kind |-> "obj", word |-> <<"h">>, lang |-> "de", tl |-> None,
              deck |-> "D1"]
    /\ \E g \in SeqsUpTo(GrammarChars, MaxGrammar) \cup {NoneS} :
         dictionary = [variant |-> "de", lemma |-> <<"h">>, pos |-> <<"NOUN">>,
                       data |-> [found |-> TRUE, article |-> NoneS,
                                 meaning_overview |-> <<>>,
                                 grammar_overview |-> g,
                                 synonyms |-> <<>>, phonetic |-> NoneS]]
    /\ calls = <<"tagger", "fetch">>
    /\ getter = [faults |-> {}, ep |-> NoEpitran, d0 |-> dictionary, log |-> <<>>]
    /\ fields = NoFields
    /\ requests = <<>>
    /\ findResult = "none"
    /\ outcome = NoOutcome
    /\ store = <<>>
    /\ trIn = [tl |-> None, replies |-> AllRaise]
    /\ trOut = NoTr
    /\ wordIn = <<>>
    /\ wordOut = <<>>
    /\ batch = NoBatch
    /\ callers = NoCallers
    /\ bot = NoBot

NextPlural == Call("get_plural")

SpecPlural == InitPlural /\ [][NextPlural]_vars

(***************************************************************************)
(* Composition of an entry with more definitions than the cap              *)
(***************************************************************************)
\* a source dictionary holding n definitions, the first e with an example
OversizedDict(lang, n, e) ==
    [variant |-> lang, lemma |-> <<"h">>, pos |-> <<"NOUN">>,
     data |-> IF lang = "en"
              THEN [found |-> TRUE, sourceUrls |-> <<>>, phonetic |-> NoneS,
                    synonyms |-> {},
                    definitions |-> [i \in 1..n |->
                        [definition |-> <<"d", ToString(i)>>,
                         example |-> IF i <= e THEN <<"e", ToString(i)>>
                                     ELSE NoneS]]]
              ELSE [found |-> TRUE, article |-> NoneS,
                    meaning_overview |-> [i \in 1..n |->
                        StrElem(<<"d", "e", ToString(i)>>)],
                    grammar_overview |-> NoneS, synonyms |-> <<>>,
                    phonetic |-> NoneS]]

InitCap ==
    /\ pc = "constructed"
    /\ arg \in [kind : {"obj"}, word : {<<"h">>}, lang : {"en", "de"},
                tl : {None}, deck : {"D1"}]
    /\ \E n \in 0..MaxEntries, e \in 0..MaxEntries :
         /\ e <= n
         /\ arg.lang = "de" => e = 0
         /\ dictionary = OversizedDict(arg.lang, n, e)
    /\ calls = <<"tagger", "fetch">>
    /\ fields = NoFields
    /\ requests = <<>>
    /\ findResult = "none"
    /\ outcome = NoOutcome
    /\ store = <<>>
    /\ trIn = [tl |-> None, replies |-> AllRaise]
    /\ trOut = NoTr
    /\ wordIn = <<>>
    /\ wordOut = <<>>
    /\ getter = NoGetter
    /\ batch = NoBatch
    /\ callers = NoCallers
    /\ bot = NoBot

NextCap == AddNotesCompose \/ CheckExistence \/ AddNote

SpecCap == InitCap /\ [][NextCap]_vars

(***************************************************************************)
(* The per-word loops of handle_word_input and handle_import_file          *)
(***************************************************************************)
BatchWords == {<<"h">>, <<"s">>}

\* how dictManager(word, ...), get_lemma() and anki.addNotes(word_obj) end for
\* one word: addNotes returns, or one of them raises
WordOutcomes == {"returned", "MissingMandatoryFieldError", "AlreadyExists",
                 "ConnectionError", "UnsupportedLanguage",
                 "DictionaryInitFailed", "DefinitionError"}

\* `except MissingMandatoryFieldError` followed by `except Exception`: every
\* exception the loop body raises is an Exception
CaughtMutant(kind) == kind = "MissingMandatoryFieldError"
Caught(kind) ==
    kind = "MissingMandatoryFieldError" \/ kind \in WordOutcomes \ {"returned"}

\* what the loop records for one word: the message shown (text input) or the
\* line logged (file import)
Report(kind) ==
    CASE kind = "returned" -> "success"
      [] kind = "MissingMandatoryFieldError" -> "word_not_exists"
      [] OTHER -> "error_processing_word"

InitBatch ==
    /\ batch \in {[NoBatch EXCEPT !.handler = h, !.phase = "start", !.words = ws] :
                    h \in {"text", "file"}, ws \in SeqsUpTo(BatchWords, MaxBatch)}
    /\ pc = "start"
    /\ arg = [kind |-> "obj", word |-> <<"h">>, lang |-> "en", tl |-> None,
              deck |-> "D1"]
    /\ dictionary = NoDict
    /\ calls = <<>>
    /\ fields = NoFields
    /\ requests = <<>>
    /\ findResult = "none"
    /\ outcome = NoOutcome
    /\ store = <<>>
    /\ trIn = [tl |-> None, replies |-> AllRaise]
    /\ trOut = NoTr
    /\ wordIn = <<>>
    /\ wordOut = <<>>
    /\ getter = NoGetter
    /\ callers = NoCallers
    /\ bot = NoBot

\* the handler up to its loop: get_loaded_deck raises ValueError when no deck
\* is loaded; no word, or Anki unreachable, end the handler with one reply
StartHandler ==
    /\ batch.phase = "start"
    /\ \E deckLoaded \in BOOLEAN, connected \in BOOLEAN :
         batch' =
           IF ~deckLoaded
           THEN [batch EXCEPT !.phase = "raised"]
           ELSE IF batch.words = <<>>
           THEN [batch EXCEPT !.phase = "returned",
                   !.replies = IF batch.handler = "text"
                               THEN <<"no_valid_words_found">>
                               ELSE <<"file_empty">>]
           ELSE IF ~connected
           THEN [batch EXCEPT !.phase = "returned",
                   !.replies = IF batch.handler = "text"
                               THEN <<"anki_connection_failed">>
                               ELSE <<"anki_connection_error">>]
           ELSE [batch EXCEPT !.phase = "loop",
                   !.replies = IF batch.handler = "text" THEN <<>>
                               ELSE <<"file_import_started">>]
    /\ UNCHANGED <<pipelineVars, trVars, wordVars, getVars, concVars, botVars>>

\* one iteration of `for word in words`
ProcessWord ==
    /\ batch.phase = "loop"
    /\ batch.i <= Len(batch.words)
    /\ \E kind \in WordOutcomes :
         LET word == batch.words[batch.i]
             b1 == [batch EXCEPT !.attempted = Append(@, word)]
         IN batch' =
              IF kind = "returned"
              THEN [b1 EXCEPT !.i = @ + 1,
                              !.imported = IF batch.handler = "file" THEN @ + 1 ELSE @,
                              !.reports = Append(@, [word |-> word, kind |-> kind,
                                                     report |-> Report(kind)])]
              ELSE IF Caught(kind)
              THEN [b1 EXCEPT !.i = @ + 1,
                              !.errors = IF batch.handler = "file" THEN @ + 1 ELSE @,
                              !.reports = Append(@, [word |-> word, kind |-> kind,
                                                     report |-> Report(kind)])]
              ELSE [b1 EXCEPT !.phase = "aborted"]
    /\ UNCHANGED <<pipelineVars, trVars, wordVars, getVars, concVars, botVars>>

\* after the loop: file import replies with its two counters
FinishLoop ==
    /\ batch.phase = "loop"
    /\ batch.i > Len(batch.words)
    /\ batch' = [batch EXCEPT !.phase = "finished",
                   !.replies = IF batch.handler = "file"
                               THEN Append(@, "file_import_completed") ELSE @]
    /\ UNCHANGED <<pipelineVars, trVars, wordVars, getVars, concVars, botVars>>

NextBatch == StartHandler \/ ProcessWord \/ FinishLoop

SpecBatch == InitBatch /\ [][NextBatch]_vars

(***************************************************************************)
(* Callers of SendToAnki.addNotes against one AnkiConnect store            *)
(***************************************************************************)
\* AnkiConnect answering findNotes truthfully: the notes of the store that
\* the query `deck:<deck> lemma:<lemma>` matches
StoreAnswer(st, payload) ==
    IF \E i \in 1..Len(st) : /\ payload.query[1] = "deck:"
                             /\ payload.query[2] = st[i].deck
                             /\ payload.query[3] = " lemma:"
                             /\ payload.query[4] = st[i].lemma
    THEN "nonempty"
    ELSE "empty"

InitCallers(active, stores) ==
    /\ callers = [p \in Procs |-> [NoCallers[p] EXCEPT !.active = p \in active]]
    /\ store \in stores
    /\ pc = "start"
    /\ arg = [kind |-> "obj", word |-> <<"h">>, lang |-> "en", tl |-> None,
              deck |-> "D1"]
    /\ dictionary = NoDict
    /\ calls = <<>>
    /\ fields = NoFields
    /\ requests = <<>>
    /\ findResult = "none"
    /\ outcome = NoOutcome
    /\ trIn = [tl |-> None, replies |-> AllRaise]
    /\ trOut = NoTr
    /\ wordIn = <<>>
    /\ wordOut = <<>>
    /\ getter = NoGetter
    /\ batch = NoBatch
    /\ bot = NoBot

\* addNotes up to its duplicate check, for a word whose entry is complete:
\* the fields are composed and the addNote payload is built
Begin(p) ==
    /\ callers[p].active
    /\ callers[p].pc = "idle"
    /\ callers[p].n < MaxAdds
    /\ \E deck \in Decks, lemma \in {<<"h">>, <<"s">>} :
         callers' = [callers EXCEPT ![p] =
                       [@ EXCEPT !.pc = "checking", !.deck = deck,
                                 !.lemma = lemma, !.saw = "none",
                                 !.n = @ + 1, !.posted = <<>>,
                                 !.last = "pending"]]
    /\ UNCHANGED store

\* checkExistence: one findNotes request; a transport failure raises
\* ConnectionError, a non-empty result raises "already exists"
Find(p) ==
    /\ callers[p].pc = "checking"
    /\ LET c == callers[p]
           payload == FindNotesPayload(c.deck, c.lemma)
           sent == Append(c.posted, payload.action)
       IN \/ callers' = [callers EXCEPT ![p] =
                           [@ EXCEPT !.pc = "idle", !.posted = sent,
                                     !.last = "ConnectionError"]]
          \/ LET result == StoreAnswer(store, payload)
             IN callers' = [callers EXCEPT ![p] =
                              IF checkExistence(result)
                              THEN [@ EXCEPT !.pc = "idle", !.posted = sent,
                                             !.saw = result,
                                             !.last = "AlreadyExists"]
                              ELSE [@ EXCEPT !.pc = "adding", !.posted = sent,
                                             !.saw = result]]
    /\ UNCHANGED store

\* the addNote request: the store creates the note or not, and the reply
\* reaches the caller or the transport fails
Add(p) ==
    /\ callers[p].pc = "adding"
    /\ LET c == callers[p]
           sent == Append(c.posted, "addNote")
           note == [deck |-> c.deck, lemma |-> c.lemma]
       IN \E created \in BOOLEAN, replied \in BOOLEAN :
            /\ store' = IF created THEN Append(store, note) ELSE store
            /\ callers' = [callers EXCEPT ![p] =
                             [@ EXCEPT !.pc = "idle", !.posted = sent,
                                       !.added = IF created THEN Append(@, note)
                                                 ELSE @,
                                       !.last = IF replied THEN "returned"
                                                ELSE "ConnectionError"]]

NextCallers ==
    /\ \E p \in Procs : Begin(p) \/ Find(p) \/ Add(p)
    /\ UNCHANGED <<pc, arg, dictionary, calls, fields, requests, findResult,
                   outcome, trVars, wordVars, getVars, batchVars, botVars>>

\* two callers running concurrently
SpecConc == InitCallers(Procs, {<<>>}) /\ [][NextCallers]_vars

\* one caller, calling sequentially, against a store that may hold a note
SpecSeq ==
    /\ InitCallers({1}, {<<>>} \cup {<<[deck |-> d, lemma |-> l]>> :
                                      d \in Decks, l \in {<<"h">>, <<"s">>}})
    /\ [][NextCallers]_vars

(***************************************************************************)
(* The running TelegramBot: the configuration file, the ConfigManager      *)
(* copies held by its managers, user_data, and its handlers                *)
(***************************************************************************)
\* the configuration files the bot can be started with
ConfigFiles ==
    [BOT_LANGUAGE : {"en"}, TARGET_LANGUAGE : {"en", "de"},
     TRANSLATION_LANGUAGE : {NoneS, <<"i", "t">>},
     SELECTED_DECK : {None} \cup Decks]

\* truth value of a configuration string
TruthyStr(x) == x # None /\ x # ""

\* DeckUtils.get_loaded_deck on a manager whose ConfigManager holds cfg
get_loaded_deck(cfg) ==
    [raised |-> ~TruthyStr(cfg.SELECTED_DECK), value |-> cfg.SELECTED_DECK]

\* TelegramBot.__init__: both managers load the file; the three attributes
\* are read once
StartBot(file) ==
    [NoBot EXCEPT !.file = file, !.deckCfg = file, !.langCfg = file,
                  !.bot_language = file.BOT_LANGUAGE,
                  !.target_language = file.TARGET_LANGUAGE,
                  !.translation_language = file.TRANSLATION_LANGUAGE,
                  !.DECK_NAME = IF get_loaded_deck(file).raised THEN None
                                ELSE file.SELECTED_DECK,
                  !.TARGET_LANGUAGE = file.TARGET_LANGUAGE,
                  !.TRANSLATION_LANGUAGE = file.TRANSLATION_LANGUAGE,
                  !.truth = file]

\* ConfigManager.set through the language manager's ConfigManager: the key is
\* assigned in its copy and the whole copy is written to the file
SetThrough(b, key, value) ==
    LET cfg == [b.langCfg EXCEPT ![key] = value]
    IN [b EXCEPT !.langCfg = cfg, !.file = cfg,
                 !.truth = [@ EXCEPT ![key] = value]]

\* LanguageUtils.set_languages
set_languages(b, bot_lang, target_lang, translation_lang) ==
    LET b1 == IF TruthyStr(bot_lang)
              THEN [SetThrough(b, "BOT_LANGUAGE", bot_lang)
                      EXCEPT !.bot_language = bot_lang]
              ELSE b
        b2 == IF TruthyStr(target_lang)
              THEN [SetThrough(b1, "TARGET_LANGUAGE", target_lang)
                      EXCEPT !.target_language = target_lang]
              ELSE b1
    IN IF Truthy(translation_lang)
       THEN [SetThrough(b2, "TRANSLATION_LANGUAGE", translation_lang)
               EXCEPT !.translation_language = translation_lang]
       ELSE b2

\* what a handler run leaves to be observed
Ran(b, handler, route, result) ==
    [NoRun EXCEPT !.handler = handler, !.route = route, !.outcome = result,
                  !.fileDeck = b.file.SELECTED_DECK, !.deckSet = b.deckSet,
                  !.trSet = b.trSet, !.targetSet = b.targetSet,
                  !.prompt = b.prompt]

\* the words of a text message (handle_word_input lines 189-190)
WordsOfText(text) ==
    LET raw == Strip(Replace(text, "\r", <<>>))
        ws == Split(Replace(Replace(raw, "\n", <<" ">>), ",", <<" ">>))
    IN [i \in 1..Len(ws) |-> [j \in 1..Len(ws[i]) |-> Lower(ws[i][j])]]

InitBot ==
    /\ bot \in {StartBot(file) : file \in ConfigFiles}
    /\ pc = "start"
    /\ arg = [kind |-> "obj", word |-> <<"h">>, lang |-> "en", tl |-> None,
              deck |-> "D1"]
    /\ dictionary = NoDict
    /\ calls = <<>>
    /\ fields = NoFields
    /\ requests = <<>>
    /\ findResult = "none"
    /\ outcome = NoOutcome
    /\ store = <<>>
    /\ trIn = [tl |-> None, replies |-> AllRaise]
    /\ trOut = NoTr
    /\ wordIn = <<>>
    /\ wordOut = <<>>
    /\ getter = NoGetter
    /\ batch = NoBatch
    /\ callers = NoCallers

\* deck_command: a new DeckManager loads the file, checks the deck against
\* Anki, sets the key and writes its copy
deck_command(b, args, reachable) ==
    IF args = <<>>
    THEN [b EXCEPT !.last = Ran(b, "deck_command", "none", "no_deck_name_provided")]
    ELSE LET deck_name == args[1]
             manager == b.file
         IN IF ~reachable
            THEN [b EXCEPT !.last = Ran(b, "deck_command", "none", "ConnectionError")]
            ELSE IF deck_name \notin Decks
            THEN [b EXCEPT !.last = Ran(b, "deck_command", "none", "deck_not_found")]
            ELSE LET b1 == [b EXCEPT
                              !.file = [manager EXCEPT !.SELECTED_DECK = deck_name],
                              !.truth = [@ EXCEPT !.SELECTED_DECK = deck_name],
                              !.DECK_NAME = deck_name,
                              !.deckSet = deck_name]
                 IN [b1 EXCEPT !.last = Ran(b1, "deck_command", "none",
                                            "deck_set_success")]

\* lang_button_callback
lang_button_callback(b, data) ==
    CASE data.kind = "lang_back" ->
           LET b1 == [b EXCEPT !.prompt = FALSE]
           IN [b1 EXCEPT !.last = Ran(b1, "lang_button_callback", "none", "menu")]
      [] data.kind = "lang_select" /\ data.scope = "translation" ->
           LET b1 == [b EXCEPT !.awaiting_translation_lang = "True",
                               !.prompt = TRUE]
           IN [b1 EXCEPT !.last = Ran(b1, "lang_button_callback", "none", "prompt")]
      [] data.kind = "lang_select" /\ data.scope # "translation" ->
           [b EXCEPT !.last = Ran(b, "lang_button_callback", "none", "menu")]
      [] data.kind = "set_lang" /\ data.scope = "bot" ->
           LET b1 == set_languages(b, data.code, b.target_language,
                                   b.translation_language)
           IN [b1 EXCEPT !.last = Ran(b1, "lang_button_callback", "none",
                                      "language_set_successfully")]
      [] data.kind = "set_lang" /\ data.scope = "target" ->
           LET b1 == set_languages(b, b.bot_language, data.code,
                                   b.translation_language)
               b2 == [b1 EXCEPT !.TARGET_LANGUAGE = b1.target_language,
                                !.targetSet = data.code]
           IN [b2 EXCEPT !.last = Ran(b2, "lang_button_callback", "none",
                                      "language_set_successfully")]

\* the callback data the keyboards of the language menu can send
ButtonData ==
    {[kind |-> "lang_back", scope |-> "none", code |-> "none"]}
    \cup {[kind |-> "lang_select", scope |-> sc, code |-> "none"] :
            sc \in {"bot", "target", "translation"}}
    \cup {[kind |-> "set_lang", scope |-> "bot", code |-> c] : c \in {"en", "it"}}
    \cup {[kind |-> "set_lang", scope |-> "target", code |-> c] : c \in {"en", "de"}}

\* handle_translation_input
handle_translation_input(b, text) ==
    LET user_input == Strip(text)
    IN IF user_input = <<>>
       THEN [b EXCEPT !.last = Ran(b, "handle_translation_input", "translation",
                                   "invalid_language_input")]
       ELSE LET b1 == set_languages(b, b.bot_language, b.target_language,
                                    user_input)
                b2 == [b1 EXCEPT !.user_translation_language = user_input,
                                 !.awaiting_translation_lang = "False",
                                 !.trSet = user_input]
            IN [b2 EXCEPT !.prompt = FALSE,
                          !.last = Ran(b2, "handle_translation_input",
                                       "translation", "translation_language_set")]

\* handle_word_input up to the construction of the aggregators of its loop
handle_word_input(b, text, connected) ==
    LET loaded == get_loaded_deck(b.deckCfg)
        words == WordsOfText(text)
        translation_lang == IF b.user_translation_language = Unset
                            THEN b.TRANSLATION_LANGUAGE
                            ELSE b.user_translation_language
        run == Ran(b, "handle_word_input", "word", "looped")
    IN IF loaded.raised
       THEN [b EXCEPT !.last = [run EXCEPT !.outcome = "ValueError"]]
       ELSE IF words = <<>>
       THEN [b EXCEPT !.last = [run EXCEPT !.outcome = "no_valid_words_found"]]
       ELSE IF ~connected
       THEN [b EXCEPT !.last = [run EXCEPT !.outcome = "anki_connection_failed"]]
       ELSE [b EXCEPT !.last = [run EXCEPT !.deck = loaded.value,
                                           !.target = b.target_language,
                                           !.tl = translation_lang,
                                           !.lookups = Len(words)]]

\* handle_text_input
handle_text_input(b, text, connected) ==
    IF b.awaiting_translation_lang = "True"
    THEN handle_translation_input(b, text)
    ELSE handle_word_input(b, text, connected)

\* handle_import_file up to the construction of the aggregators of its loop
handle_import_file(b, supported, words, connected) ==
    LET loaded == get_loaded_deck(b.deckCfg)
        run == Ran(b, "handle_import_file", "none", "looped")
    IN IF loaded.raised
       THEN [b EXCEPT !.last = [run EXCEPT !.outcome = "ValueError"]]
       ELSE IF ~supported
       THEN [b EXCEPT !.last = [run EXCEPT !.outcome = "file_unsupported_format"]]
       ELSE IF words = <<>>
       THEN [b EXCEPT !.last = [run EXCEPT !.outcome = "file_empty"]]
       ELSE IF ~connected
       THEN [b EXCEPT !.last = [run EXCEPT !.outcome = "anki_connection_error"]]
       ELSE [b EXCEPT !.last = [run EXCEPT !.deck = loaded.value,
                                           !.target = b.target_language,
                                           !.tl = b.TRANSLATION_LANGUAGE,
                                           !.lookups = Len(words)]]

\* /deck with no argument, an existing deck or an unknown one
DeckCommand ==
    /\ bot.steps < MaxSteps
    /\ \E args \in {<<>>, <<"D1">>, <<"D2">>, <<"D3">>}, reachable \in BOOLEAN :
         bot' = [deck_command(bot, args, reachable) EXCEPT !.steps = @ + 1]

\* a button of the language menu
LangButton ==
    /\ bot.steps < MaxSteps
    /\ \E data \in ButtonData :
         bot' = [lang_button_callback(bot, data) EXCEPT !.steps = @ + 1]

\* a text message that is not a command
TextMessage ==
    /\ bot.steps < MaxSteps
    /\ \E text \in {<<",">>, <<"i", "t">>, <<"h", ",", "s">>},
          connected \in BOOLEAN :
         bot' = [handle_text_input(bot, text, connected) EXCEPT !.steps = @ + 1]

\* an uploaded document, with no word or one
ImportFile ==
    /\ bot.steps < MaxSteps
    /\ \E supported \in BOOLEAN, words \in {<<>>, <<<<"h">>>>},
          connected \in BOOLEAN :
         bot' = [handle_import_file(bot, supported, words, connected)
                   EXCEPT !.steps = @ + 1]

NextBot ==
    /\ DeckCommand \/ LangButton \/ TextMessage \/ ImportFile
    /\ UNCHANGED <<pipelineVars, trVars, wordVars, getVars, batchVars, concVars>>

SpecBot == InitBot /\ [][NextBot]_vars

(***************************************************************************)
(* Properties                                                              *)
(***************************************************************************)
\* a composed field is missing, empty, or whitespace-only
Blank(f, k) == k \notin DOMAIN f \/ \A i \in 1..Len(f[k]) : IsSpace(f[k][i])

Composed == fields # NoFields

PostedActions == {requests[i].action : i \in 1..Len(requests)}

\* C1: whenever the composed def1 or the composed lemma is missing, empty or
\* whitespace-only, addNotes ends with MissingMandatoryFieldError and has
\* posted neither findNotes nor addNote.
C1_MissingRejectedBeforeStore ==
    (Composed /\ (Blank(fields, "def1") \/ Blank(fields, "lemma")))
        => (outcome.kind = "MissingMandatoryFieldError" /\ requests = <<>>
            /\ store = <<>>)

C1_Witness ==
    /\ Composed
    /\ ~Blank(fields, "def1")
    /\ fields["lemma"] = <<" ">>
    /\ outcome.kind = "MissingMandatoryFieldError"
    /\ requests = <<>>

\* C2: the missing-mandatory-field error names exactly the blank fields among
\* def1 and lemma (def1 alone, lemma alone, or both), and carries the word.
C2_ErrorNamesExactlyTheBlankFields ==
    outcome.kind = "MissingMandatoryFieldError"
        => /\ {outcome.missing[i] : i \in 1..Len(outcome.missing)}
                = {k \in {"def1", "lemma"} : Blank(fields, k)}
           /\ outcome.word = arg.word

\* bool(result) of a findNotes reply is false: no note ids ([] or null)
NoNotesFound(result) == result \in {"empty", "null"}

\* C3: an addNote request is posted only after a findNotes query for the same
\* deck and lemma was answered, in the same call, with no notes; after a
\* non-empty answer nothing more is posted and the call fails with the
\* already-exists error naming the lemma and the deck.
C3_AddOnlyAfterEmptyFind ==
    /\ \A i \in 1..Len(requests) :
         requests[i].action = "addNote"
            => /\ i = 2
               /\ requests[1] = [action |-> "findNotes",
                                 query |-> <<"deck:", requests[i].note.deckName,
                                             " lemma:",
                                             requests[i].note.fields["lemma"]>>]
               /\ NoNotesFound(findResult)
    /\ findResult = "nonempty"
         => /\ "addNote" \notin PostedActions
            /\ store = <<>>
            /\ outcome.kind = "AlreadyExists"
            /\ outcome.lemma = fields["lemma"]
            /\ outcome.deck = arg.deck

C3_Witness ==
    /\ Len(requests) = 2
    /\ requests[2].action = "addNote"
    /\ findResult = "empty"
    /\ store = <<[deck |-> arg.deck, lemma |-> fields["lemma"]]>>

\* C4: every invocation of addNotes ends silently with the note created, or
\* with a missing-mandatory-field, already-exists or connection error; no
\* other error escapes and a silent return means the note is in the store.
C4_FourOutcomes ==
    (pc = "done" /\ outcome.inAddNotes)
        => /\ outcome.kind \in {"returned", "MissingMandatoryFieldError",
                                "AlreadyExists", "ConnectionError"}
           /\ outcome.kind = "returned"
                => store = <<[deck |-> arg.deck, lemma |-> fields["lemma"]]>>

\* a back-end raised, or returned nothing, "" or whitespace only
BackendFailed(r) == r.kind # "str" \/ \A i \in 1..Len(r.val) : IsSpace(r.val[i])

FirstGood(replies) ==
    IF \E k \in 1..Len(translators) : ~BackendFailed(replies[k])
    THEN CHOOSE k \in 1..Len(translators) :
           /\ ~BackendFailed(replies[k])
           /\ \A j \in 1..(k - 1) : BackendFailed(replies[j])
    ELSE 0

\* C5: with a target language, the back-ends are invoked in list order, each
\* only after all earlier ones failed; the call returns the capitalized reply
\* of the first back-end with a non-blank reply and invokes none after it.
C5_FallbackOrder ==
    (trOut.done /\ trIn.tl = "it")
        => /\ Len(trOut.invoked) <= Len(translators)
           /\ \A i \in 1..Len(trOut.invoked) :
                /\ trOut.invoked[i] = translators[i]
                /\ \A j \in 1..(i - 1) : BackendFailed(trIn.replies[j])
           /\ LET k == FirstGood(trIn.replies) IN
              k # 0 => /\ Len(trOut.invoked) = k
                       /\ Len(trOut.result) = Len(trIn.replies[k].val)
                       /\ \A i \in 1..Len(trOut.result) :
                            trOut.result[i] = IF i = 1 THEN Upper(trIn.replies[k].val[i])
                                              ELSE Lower(trIn.replies[k].val[i])

C5_Witness ==
    /\ trOut.done
    /\ trIn.tl = "it"
    /\ trIn.replies[1].kind = "raise"
    /\ trIn.replies[2] = [kind |-> "str", val |-> <<>>]
    /\ trIn.replies[3] = [kind |-> "str", val |-> <<"h", "S">>]
    /\ trOut.result = <<"H", "s">>
    /\ trOut.invoked = <<"GoogleTranslator", "MyMemoryTranslator", "LingueeTranslator">>

AllBackendsFailed ==
    /\ trOut.done
    /\ trIn.tl = "it"
    /\ \A i \in 1..Len(translators) : BackendFailed(trIn.replies[i])

\* C6: when every back-end fails, get_translation returns "" and the word is
\* still composed: translated_lemma is "" and the note is rejected as
\* incomplete only if def1 or lemma is blank.
C6_EmptyTranslationNotFatal ==
    AllBackendsFailed
        => /\ trOut.result = <<>>
           /\ outcome.kind # "DefinitionError" => Composed
           /\ Composed =>
                /\ fields["translated_lemma"] = <<>>
                /\ (~Blank(fields, "def1") /\ ~Blank(fields, "lemma"))
                      => outcome.kind # "MissingMandatoryFieldError"

C6_Witness ==
    /\ AllBackendsFailed
    /\ Len(trOut.invoked) = Len(translators)
    /\ outcome.kind = "returned"
    /\ store # <<>>

\* C7: with no translation language (None or ""), get_translation returns ""
\* and invokes no back-end.
C7_NoLanguageNoBackend ==
    (trOut.done /\ trIn.tl \in {None, ""})
        => (trOut.result = <<>> /\ trOut.invoked = <<>>)

C7_Witness ==
    /\ trOut.done
    /\ trIn.tl = ""
    /\ ~BackendFailed(trIn.replies[1])
    /\ trOut.invoked = <<>>

\* C8: constructing the aggregator with a code outside {en, de} fails with the
\* error listing the supported codes, before the Tagger or any fetch is called.
C8_UnsupportedLanguageFailsFirst ==
    (pc # "start" /\ arg.lang \notin {"en", "de"})
        => /\ pc = "done"
           /\ outcome.kind = "UnsupportedLanguage"
           /\ outcome.supported = <<"en", "de">>
           /\ calls = <<>>
           /\ dictionary = NoDict

C8_Witness ==
    /\ pc = "done"
    /\ arg.lang = "fr"
    /\ outcome.kind = "UnsupportedLanguage"
    /\ calls = <<>>

\* the word has whitespace between two of its characters
HasInternalWhitespace(w) == HasWhitespace(Strip(w))

\* C9: for a word with internal whitespace lemma resolution fails with the
\* phrase-not-allowed error and no fetch of definitions is attempted.
C9_PhraseRejectedBeforeFetch ==
    (pc # "start" /\ HasInternalWhitespace(arg.word) /\ Supported(arg.lang))
        => /\ outcome.kind = "PhraseNotAllowed"
           /\ \A i \in 1..Len(calls) : calls[i] # "fetch"

\* C9 on the legacy Word: the same statement for Word.lemmatize
C9_LegacyPhraseRejected ==
    (wordOut.done /\ HasInternalWhitespace(wordIn))
        => (wordOut.raised = "ValueError" /\ ~wordOut.network)

\* C10: the lemma of a successfully constructed aggregator has no embedded
\* whitespace, also when the tagging engine yields several tagged units.
C10_LemmaIsSingleToken ==
    dictionary # NoDict => ~HasWhitespace(get_lemma(dictionary))

\* the calls of the log
LogEntries == {getter.log[i] : i \in 1..Len(getter.log)}

\* the getter ran while its getter of the source dictionary raised
Faulted(c) == c.name \in getter.faults

\* C11: on a constructed aggregator, a fault of the source dictionary inside
\* get_POS, get_url, get_article, get_plural, get_examples or get_synonyms
\* never reaches the caller: the getter returns its empty default.
C11_OptionalGetterFaultGivesDefault ==
    \A c \in LogEntries :
        (c.name \in {"get_POS", "get_url", "get_article", "get_plural",
                     "get_examples", "get_synonyms"} /\ Faulted(c))
        => (~c.raised /\ c.value = <<>>)

C11_Witness ==
    \E c \in LogEntries :
        c.name = "get_synonyms" /\ Faulted(c) /\ ~c.raised /\ c.value = <<>>

\* C12: a fault of the source dictionary inside get_lemma or get_definition is
\* not turned into a default: the caller of the aggregator gets an error that
\* carries the word and the language.
C12_MandatoryGetterFaultPropagates ==
    \A c \in LogEntries :
        (c.name \in {"get_lemma", "get_definition"} /\ Faulted(c))
        => (c.raised /\ c.error.type = "RuntimeError"
            /\ c.error.word = arg.word /\ c.error.lang = arg.lang)

C12_Witness ==
    \E c \in LogEntries :
        c.name = "get_definition" /\ Faulted(c) /\ c.raised
        /\ c.error.word = <<"h">>

\* the IPA of the source dictionary as get_IPA keeps it, "" when blank
SourceIPA(d) ==
    LET src == IF d.variant = "en" THEN English_get_IPA(d) ELSE German_get_IPA(d)
    IN IF src = NoneS \/ Strip(src) = <<>> THEN <<>> ELSE src

\* C13: the IPA getter of the aggregator never lets a fault reach the caller;
\* it returns the IPA of the source dictionary when that is non-empty, uses
\* the transliteration engine only when that IPA is empty, the language is
\* "de" and the engine is available, and returns "" on any fault.
C13_IPANeverPropagates ==
    \A c \in LogEntries :
        c.name = "get_IPA" =>
            /\ ~c.raised
            /\ (getter.faults = {} /\ SourceIPA(dictionary) # <<>>)
                   => c.value = SourceIPA(dictionary)
            /\ (c.value # <<>> /\ c.value # SourceIPA(dictionary))
                   => (dictionary.variant = "de" /\ getter.ep.available)
            /\ "get_IPA" \in getter.faults => c.value \in {<<>>, getter.ep.val}

\* the source dictionary yields n definitions and e examples
SourceDefinitions(d) ==
    IF d.variant = "en" THEN English_get_definition(d)
    ELSE German_get_definition(d)
SourceExamples(d) ==
    IF d.variant = "en" THEN English_get_examples(d) ELSE <<>>

Min(a, b) == IF a < b THEN a ELSE b

\* C14: for a source yielding n definitions the composed mapping has exactly
\* the slots def1..def(min(n, 15)), filled in source order, and no def slot
\* beyond 15; the example slots are capped in the same way.
C14_SlotsCappedAtFifteen ==
    Composed =>
        LET src == SourceDefinitions(dictionary)
            exs == SourceExamples(dictionary)
            m == Min(Len(src), 15)
            me == Min(Len(exs), 15)
        IN /\ DOMAIN fields = BaseKeys \cup {DefKey(i) : i \in 1..m}
                                       \cup {ExKey(i) : i \in 1..me}
           /\ \A i \in 1..m : fields[DefKey(i)] = src[i]
           /\ \A i \in 1..me : fields[ExKey(i)] = exs[i]
           /\ \A i \in 16..(MaxEntries + 1) :
                  DefKey(i) \notin DOMAIN fields /\ ExKey(i) \notin DOMAIN fields

\* thirty definitions and thirty examples have been composed
C14_Witness ==
    /\ Composed
    /\ Len(SourceDefinitions(dictionary)) = 30
    /\ Len(SourceExamples(dictionary)) = 30
    /\ DefKey(15) \in DOMAIN fields
    /\ ExKey(15) \in DOMAIN fields

\* C15: in the composed mapping no slot is absent, only empty: with d
\* definitions and e < d examples the mapping holds def1..defd, ex1..exe and
\* ex(e+1)..exd with the empty string.
C15_TrailingExamplesPresentAndEmpty ==
    Composed =>
        LET src == SourceDefinitions(dictionary)
            exs == SourceExamples(dictionary)
            d == Min(Len(src), 15)
            e == Min(Len(exs), 15)
        IN /\ \A i \in 1..d : DefKey(i) \in DOMAIN fields
           /\ \A i \in 1..e : ExKey(i) \in DOMAIN fields /\ fields[ExKey(i)] = exs[i]
           /\ \A i \in (e + 1)..d :
                  ExKey(i) \in DOMAIN fields /\ fields[ExKey(i)] = <<>>

\* two calls of the same optional getter on one aggregator
SamePair(i, j) ==
    /\ i < j
    /\ getter.log[i].name = getter.log[j].name
    /\ getter.log[i].name \in OptionalGetters

SameResult(i, j) ==
    /\ getter.log[i].raised = getter.log[j].raised
    /\ getter.log[i].value = getter.log[j].value

AllShortStrings(mo) ==
    /\ mo # <<>>
    /\ \A i \in 1..Len(mo) : ~mo[i].isList /\ Len(mo[i].str) <= 2

Haus == <<StrElem(<<"H">>), StrElem(<<"a">>), StrElem(<<"u">>), StrElem(<<"s">>)>>

\* C17: when the meaning overview is a list of strings of at most two
\* characters each, get_definition returns exactly one definition, the cleaned
\* concatenation of the elements in order: ["H","a","u","s"] gives ["Haus"].
C17_ShortElementsAreJoined ==
    \A c \in LogEntries :
        LET mo == dictionary.data.meaning_overview IN
        (c.name = "get_definition" /\ AllShortStrings(mo)) =>
            /\ ~c.raised
            /\ Len(c.value) = 1
            /\ c.value[1] = _clean_text(Concat([i \in 1..Len(mo) |-> mo[i].str]))
            /\ mo = Haus => c.value = << <<"H", "a", "u", "s">> >>

C17_Witness ==
    /\ dictionary.data.meaning_overview = Haus
    /\ \E c \in LogEntries : c.name = "get_definition"
                            /\ c.value = << <<"H", "a", "u", "s">> >>

\* C18: the loop attempts every word of the batch once and in order, whatever
\* the earlier words did; a failure is recorded for its word only and the loop
\* goes on; when file import ends, imported + errors is the number of words.
C18_EveryWordAttemptedOnce ==
    /\ batch.phase # "aborted"
    /\ batch.phase \in {"loop", "finished"} =>
          /\ batch.attempted = SubSeq(batch.words, 1, batch.i - 1)
          /\ Len(batch.reports) = batch.i - 1
          /\ \A k \in 1..Len(batch.reports) :
                 /\ batch.reports[k].word = batch.words[k]
                 /\ batch.reports[k].report = "success"
                        <=> batch.reports[k].kind = "returned"
          /\ batch.handler = "file" =>
                 /\ batch.imported + batch.errors = batch.i - 1
                 /\ batch.imported =
                        Cardinality({k \in 1..Len(batch.reports) :
                                        batch.reports[k].kind = "returned"})
    /\ batch.phase = "finished" =>
          /\ batch.attempted = batch.words
          /\ batch.handler = "file" =>
                 batch.imported + batch.errors = Len(batch.words)

\* a file import that ended after a failure for its first word and a success
\* for its last
C18_Witness ==
    /\ batch.phase = "finished"
    /\ batch.handler = "file"
    /\ Len(batch.words) >= 2
    /\ batch.reports[1].kind = "ConnectionError"
    /\ batch.reports[Len(batch.words)].kind = "returned"
    /\ batch.imported >= 1
    /\ batch.errors >= 1

\* the enriched entry has been asked for, and nothing came back
Fetches == Cardinality({i \in 1..Len(calls) : calls[i] = "fetch"})
FetchFailed == Fetches > 0 /\ ~dictionary.data.found

\* C19: when the Tagger call succeeds and the fetch of the enriched entry
\* fails, the source dictionary and the aggregator are still constructed, the
\* data getters of the source dictionary return their empty defaults, and the
\* fetch is made once for the lifetime of the object.
C19_FetchFailureGivesEmptyGetters ==
    /\ Fetches <= 1
    /\ Fetches = 1 => (dictionary # NoDict /\ outcome.kind # "DictionaryInitFailed")
    /\ FetchFailed =>
          /\ SourceDefinitions(dictionary) = <<>>
          /\ SourceExamples(dictionary) = <<>>
          /\ IF dictionary.variant = "en"
             THEN /\ dictionary.data.synonyms = {}
                  /\ English_get_IPA(dictionary) = <<>>
             ELSE /\ German_get_synonyms(dictionary) = <<>>
                  /\ German_get_IPA(dictionary) = <<>>
                  /\ German_get_article(dictionary) = <<>>
                  /\ German_get_plural(dictionary) = <<>>

\* the getters have run on a German dictionary whose fetch failed
C19_Witness ==
    /\ FetchFailed
    /\ dictionary.variant = "de"
    /\ pc = "done"
    /\ outcome.kind = "MissingMandatoryFieldError"

\* C20 as stated: a failed fetch of the enriched entry makes the construction
\* of the aggregator fail.
C20_FetchFailureFatalAtConstruction ==
    FetchFailed => (outcome.kind = "DictionaryInitFailed" /\ pc = "done")

\* C20 amended: a failed fetch is swallowed by the source dictionary and the
\* aggregator is constructed; construction fails only before the fetch, on
\* the Tagger; the word is rejected later, by the mandatory-field check of
\* addNotes, with def1 missing and nothing posted to the store.
C20_FetchFailureRejectedByMandatoryCheck ==
    /\ outcome.kind = "DictionaryInitFailed" => calls = <<"tagger">>
    /\ FetchFailed =>
          /\ dictionary # NoDict
          /\ pc \in {"constructed", "done"}
          /\ pc = "done" =>
                /\ outcome.kind = "MissingMandatoryFieldError"
                /\ outcome.missing = <<"def1">>
                /\ requests = <<>>
                /\ store = <<>>

C20_Witness ==
    /\ FetchFailed
    /\ dictionary.variant = "en"
    /\ dictionary.lemma # <<>>
    /\ pc = "done"
    /\ outcome.kind = "MissingMandatoryFieldError"
    /\ outcome.missing = <<"def1">>

Punctuation == {".", ",", ";", ":"}

\* the plural the two heuristics give when the second one is used only if the
\* marker is absent
PluralByOneHeuristic(g) ==
    IF ~Truthy(g) THEN <<>>
    ELSE IF ContainsSeq(g, PluralMarker)
         THEN StripChars(LastWord(Strip(AfterLastSeq(g, PluralMarker))), Punctuation)
    ELSE IF Contains(g, ",")
         THEN StripChars(LastWord(Strip(AfterLast(g, ","))), Punctuation)
    ELSE <<>>

\* C23: get_plural never raises; with the marker "Plural:" in the grammar
\* overview the result is the last token after the marker without its
\* punctuation; the last token after the last comma is taken only if the
\* marker is absent; when the applicable heuristic yields nothing the result
\* is "".
C23_PluralHeuristicsInOrder ==
    \A c \in LogEntries :
        c.name = "get_plural" =>
            /\ ~c.raised
            /\ c.value = PluralByOneHeuristic(dictionary.data.grammar_overview)

\* every element of the meaning overview is a string
FlatOverview(mo) == \A i \in 1..Len(mo) : ~mo[i].isList

\* C24 as stated: a flat list of N strings gives the N cleaned elements in
\* order, a list with nested lists the cleaned elements of its one-level
\* flattening.
C24_FlatListGivesEveryElement ==
    \A c \in LogEntries :
        LET mo == dictionary.data.meaning_overview
            flat == Flatten(mo)
        IN c.name = "get_definition" =>
              /\ FlatOverview(mo) =>
                    /\ Len(c.value) = Len(mo)
                    /\ \A i \in 1..Len(mo) : c.value[i] = _clean_text(mo[i].str)
              /\ ~FlatOverview(mo) =>
                    /\ Len(c.value) = Len(flat)
                    /\ \A i \in 1..Len(flat) : c.value[i] = _clean_text(flat[i])

\* some element is a string of more than two characters
HasLongString(mo) == \E i \in 1..Len(mo) : ~mo[i].isList /\ Len(mo[i].str) > 2

\* C24 amended: a flat list of N strings of which at least one has more than
\* two characters gives the N cleaned elements in order; a list with nested
\* lists gives the cleaned elements of its one-level flattening.
C24_FlatListWithLongElement ==
    \A c \in LogEntries :
        LET mo == dictionary.data.meaning_overview
            flat == [i \in 1..Len(mo) |-> mo[i].str]
            nested == Concat([i \in 1..Len(mo) |->
                         IF mo[i].isList THEN mo[i].items ELSE <<mo[i].str>>])
        IN c.name = "get_definition" =>
              /\ (FlatOverview(mo) /\ HasLongString(mo)) =>
                    c.value = [i \in 1..Len(mo) |-> _clean_text(flat[i])]
              /\ ~FlatOverview(mo) =>
                    c.value = [i \in 1..Len(nested) |-> _clean_text(nested[i])]

\* a nested overview of three elements has been flattened into four
C24_Witness ==
    /\ dictionary.data.meaning_overview =
          <<StrElem(<<"a", "\n">>),
            ListElem(<<<<"a">>, <<"d", "\n", "f">>>>),
            StrElem(<<"d", "e", "f">>)>>
    /\ \E c \in LogEntries :
          c.name = "get_definition"
          /\ c.value = << <<"a">>, <<"a">>, <<"d", " ", "f">>, <<"d", "e", "f">> >>

\* how often x occurs in the sequence s
Occurrences(s, x) == Cardinality({i \in 1..Len(s) : s[i] = x})

\* how often an action was posted to AnkiConnect in this call
Posted(action) ==
    Cardinality({i \in 1..Len(requests) : requests[i].action = action})

\* C21: the duplicate check and the insertion of addNotes are separate
\* requests: a caller sends addNote only after its own findNotes came back
\* empty, no caller adds the same deck and lemma twice, and every note of the
\* store was added by one of the callers, so two notes of one deck and lemma
\* come from two callers that both saw an empty result.
C21_CheckAndInsertAreSeparate ==
    /\ \A p \in Procs :
         /\ callers[p].pc = "adding" => callers[p].saw = "empty"
         /\ Occurrences(callers[p].posted, "addNote") > 0
               => callers[p].saw = "empty"
         /\ \A i, j \in 1..Len(callers[p].added) :
               callers[p].added[i] = callers[p].added[j] => i = j
    /\ Len(store) = Len(callers[1].added) + Len(callers[2].added)

\* both callers ran addNotes once for the same deck and lemma, both saw an
\* empty findNotes result, both sent addNote, and the store holds two notes
C21_Witness ==
    /\ \A p \in Procs : /\ callers[p].n = 1
                        /\ callers[p].pc = "idle"
                        /\ callers[p].saw = "empty"
                        /\ callers[p].posted = <<"findNotes", "addNote">>
    /\ callers[1].deck = callers[2].deck
    /\ callers[1].lemma = callers[2].lemma
    /\ store = <<[deck |-> callers[1].deck, lemma |-> callers[1].lemma],
                 [deck |-> callers[1].deck, lemma |-> callers[1].lemma]>>

\* C22: during the lookup and submission of one word the source fetch is
\* issued at most once, each translation back-end is invoked at most once,
\* at most one findNotes and one addNote are posted, and a request that
\* failed is the last one of the call.
C22_NoNetworkOperationIsRetried ==
    /\ Occurrences(calls, "fetch") <= 1
    /\ \A i \in 1..Len(translators) : Occurrences(calls, translators[i]) <= 1
    /\ Posted("findNotes") <= 1
    /\ Posted("addNote") <= 1
    /\ Len(requests) = Posted("findNotes") + Posted("addNote")
    /\ outcome.kind = "ConnectionError" => pc = "done"
    /\ pc = "done" /\ outcome.kind = "ConnectionError" /\ findResult = "none"
          => Posted("addNote") = 0

\* every back-end failed and was invoked, both requests were posted and the
\* addNote request failed in transport
C22_Witness ==
    /\ pc = "done"
    /\ outcome.kind = "ConnectionError"
    /\ Occurrences(calls, "fetch") = 1
    /\ \A i \in 1..Len(translators) : Occurrences(calls, translators[i]) = 1
    /\ trOut.done /\ trOut.result = <<>>
    /\ Posted("findNotes") = 1
    /\ Posted("addNote") = 1

\* the store holds a note of this deck and lemma
Holds(st, deck, lemma) ==
    \E i \in 1..Len(st) : st[i].deck = deck /\ st[i].lemma = lemma

\* C25: with one caller invoking addNotes sequentially against a store that
\* answers findNotes truthfully, the store never holds two notes of the same
\* deck and lemma: addNote is only sent while the store holds no such note,
\* and a call that found the note is refused without sending addNote.
C25_SequentialCallerNeverDuplicates ==
    /\ \A i, j \in 1..Len(store) : store[i] = store[j] => i = j
    /\ \A p \in Procs :
         /\ callers[p].pc = "adding"
               => ~Holds(store, callers[p].deck, callers[p].lemma)
         /\ callers[p].saw = "nonempty"
               => /\ callers[p].last = "AlreadyExists"
                  /\ callers[p].posted = <<"findNotes">>
                  /\ Holds(store, callers[p].deck, callers[p].lemma)

\* the caller added a note and a later call for the same deck and lemma was
\* refused
C25_Witness ==
    /\ callers[1].n >= 2
    /\ callers[1].last = "AlreadyExists"
    /\ callers[1].added = <<[deck |-> callers[1].deck,
                             lemma |-> callers[1].lemma]>>
    /\ Len(store) = 1

\* the handlers that look words up and submit notes
WordHandlers == {"handle_word_input", "handle_import_file"}

\* C26: after deck_command selected deck D, every later handle_word_input and
\* handle_import_file reads deck D: it does not stop on a missing deck and
\* its notes go to D.
C26_HandlersUseSelectedDeck ==
    bot.last.handler \in WordHandlers /\ bot.last.deckSet # "unset"
       => /\ bot.last.outcome # "ValueError"
          /\ bot.last.outcome = "looped" => bot.last.deck = bot.last.deckSet

\* C27: after any sequence of set calls through the ConfigManager instances
\* of the process, the configuration file holds for every key the value most
\* recently set for it.
C27_FileHoldsLatestValueOfEveryKey ==
    bot.file = bot.truth

\* C28: after handle_translation_input set translation language L, and after
\* a target language was set, every aggregator constructed afterwards, by
\* text input or by file import, gets that translation and target language.
C28_AggregatorsUseLanguagesSet ==
    bot.last.outcome = "looped"
       => /\ bot.last.trSet # Unset => bot.last.tl = bot.last.trSet
          /\ bot.last.targetSet # "unset"
                => bot.last.target = bot.last.targetSet

\* C29: a text message is routed to the translation-language handler exactly
\* while the prompt is pending, i.e. after 'translation' was chosen and
\* before a language was supplied or the Back button was pressed.
C29_RoutedToTranslationOnlyWhilePending ==
    bot.last.route # "none"
       => (bot.last.route = "translation" <=> bot.last.prompt)

\* C30: with no deck selected in the configuration, handle_word_input and
\* handle_import_file reply no_deck_selected and return without a lookup;
\* they never end with an unhandled exception.
C30_NoDeckRepliesAndReturns ==
    bot.last.handler \in WordHandlers
       => /\ bot.last.outcome # "ValueError"
          /\ bot.last.fileDeck = None
                => bot.last.outcome = "no_deck_selected" /\ bot.last.lookups = 0

====
